---- MODULE Spec2Model ----
(***************************************************************************)
(* Model of the n8n MCP server: instance configuration (config.ts), the    *)
(* backend client and the tool handlers (n8n-client.ts / tools.ts) and the *)
(* CallTool dispatch entry point and the HTTP server of the streaming mode  *)
(* with its table of SSE sessions (index.ts).                              *)
(*                                                                         *)
(* Strings the code inspects character by character (names, URLs, search   *)
(* queries) are sequences of one-character strings.                        *)
(***************************************************************************)
EXTENDS Integers, Sequences, FiniteSets, TLC

VARIABLES env, phase, instances, lookup, calls,
          clock, conns, activeTransports, streams, http

\* The state of the HTTP server of startSSEServer: the clock Date.now()
\* reads, the connections opened on GET /sse, the activeTransports map, what
\* has been written to each connection's event stream and the last response
\* the request handler wrote itself.
streamVars == <<clock, conns, activeTransports, streams, http>>

vars == <<env, phase, instances, lookup, calls,
          clock, conns, activeTransports, streams, http>>

(***************************************************************************)
(* Bounds of the model                                                     *)
(***************************************************************************)
MaxJsonLen == 2
MaxNumberedSet == 2
MaxPage == 2
BigBackend == 203
MaxCalls == 2
MaxConns == 2
MaxTicks == 1

(***************************************************************************)
(* Strings                                                                 *)
(***************************************************************************)
UpperChars == <<"A", "B", "D", "P">>
LowerChars == <<"a", "b", "d", "p">>

\* String.prototype.toLowerCase on one character of the model's alphabet.
toLowerChar(c) ==
  IF \E i \in 1..Len(UpperChars) : UpperChars[i] = c
    THEN LowerChars[CHOOSE i \in 1..Len(UpperChars) : UpperChars[i] = c]
    ELSE c

toLowerCase(s) == [i \in 1..Len(s) |-> toLowerChar(s[i])]

\* url.replace(/\/$/, ''): the regular expression matches one "/" at the very
\* end of the string, and replace() without the g flag replaces one match.
StripTrailingSlash(u) ==
  IF Len(u) > 0 /\ u[Len(u)] = "/" THEN SubSeq(u, 1, Len(u) - 1) ELSE u

EndsWithSlash(u) == Len(u) > 0 /\ u[Len(u)] = "/"

(***************************************************************************)
(* Environment values: process.env.X is undefined or a string; a field of  *)
(* a parsed JSON object is absent or a string.                             *)
(***************************************************************************)
Unset == [set |-> FALSE, val |-> <<>>]
Str(s) == [set |-> TRUE, val |-> s]

\* JavaScript truthiness of (undefined | string): undefined and "" are falsy.
Truthy(v) == v.set /\ v.val # <<>>

DefaultName == <<"d", "e", "f", "a", "u", "l", "t">>
MaxNumbered == 20

(***************************************************************************)
(* config.ts: loadInstances                                                *)
(***************************************************************************)
MkInstance(name, url, apiKey) ==
  [name |-> name, url |-> StripTrailingSlash(url), apiKey |-> apiKey]

\* The for..of loop over the parsed array inside the try block.  Reading
\* inst.name of a null entry raises a TypeError, which the catch block logs:
\* the loop is abandoned and the instances pushed so far are kept.
RECURSIVE JsonLoop(_, _, _)
JsonLoop(items, i, acc) ==
  IF i > Len(items) THEN acc
  ELSE LET inst == items[i] IN
    IF inst.kind = "null" THEN acc
    ELSE IF Truthy(inst.name) /\ Truthy(inst.url) /\ Truthy(inst.apiKey)
      THEN JsonLoop(items, i + 1,
             Append(acc, MkInstance(inst.name.val, inst.url.val, inst.apiKey.val)))
      ELSE JsonLoop(items, i + 1, acc)

\* N8N_INSTANCES: unset or "" (falsy), text JSON.parse rejects, JSON that is
\* not an array, or a JSON array.
LoadJson(json) ==
  IF json.kind = "array" THEN JsonLoop(json.items, 1, <<>>) ELSE <<>>

\* process.env[`N8N_INSTANCE_${i}_NAME`] and its _URL and _API_KEY: undefined
\* for an index the environment does not set.
EnvTriple(numbered, i) ==
  IF i \in DOMAIN numbered THEN numbered[i]
  ELSE [name |-> Unset, url |-> Unset, apiKey |-> Unset]

\* for (let i = 1; i <= 20; i++): N8N_INSTANCE_<i>_NAME / _URL / _API_KEY.
RECURSIVE NumberedLoop(_, _, _)
NumberedLoop(numbered, i, acc) ==
  IF i > MaxNumbered THEN acc
  ELSE LET t == EnvTriple(numbered, i) IN
    IF Truthy(t.name) /\ Truthy(t.url) /\ Truthy(t.apiKey)
      THEN NumberedLoop(numbered, i + 1,
             Append(acc, MkInstance(t.name.val, t.url.val, t.apiKey.val)))
      ELSE NumberedLoop(numbered, i + 1, acc)

LoadNumbered(numbered, acc) == NumberedLoop(numbered, 1, acc)

\* if (instances.length === 0) { N8N_URL / N8N_API_KEY / N8N_INSTANCE_NAME }
LoadLegacy(legacy, acc) ==
  IF Len(acc) = 0 /\ Truthy(legacy.url) /\ Truthy(legacy.apiKey)
    THEN Append(acc, MkInstance(
           IF Truthy(legacy.name) THEN legacy.name.val ELSE DefaultName,
           legacy.url.val, legacy.apiKey.val))
    ELSE acc

loadInstances(e) ==
  LoadLegacy(e.legacy, LoadNumbered(e.numbered, LoadJson(e.json)))

(***************************************************************************)
(* config.ts: getInstanceByName                                            *)
(***************************************************************************)
NotFound == [found |-> FALSE, index |-> 0]

\* instances.find(...) returning the last match instead of the first.
getInstanceByNameLast(insts, name) ==
  LET hits == {i \in 1..Len(insts) :
                 toLowerCase(insts[i].name) = toLowerCase(name)}
  IN  IF hits = {} THEN NotFound
      ELSE [found |-> TRUE, index |-> CHOOSE i \in hits : \A j \in hits : j <= i]

\* instances.find((inst) => inst.name.toLowerCase() === name.toLowerCase()):
\* the first element satisfying the predicate, or undefined.
getInstanceByName(insts, name) ==
  LET hits == {i \in 1..Len(insts) :
                 toLowerCase(insts[i].name) = toLowerCase(name)}
  IN  IF hits = {} THEN NotFound
      ELSE [found |-> TRUE, index |-> CHOOSE i \in hits : \A j \in hits : i <= j]

(***************************************************************************)
(* Tool arguments.  A field of the arguments object is absent, present     *)
(* with a value of the declared type ("ok"), or present with a value the   *)
(* schema rejects ("bad": wrong type, or a status outside the enum).       *)
(***************************************************************************)
Absent == [st |-> "absent"]
Ok(v) == [st |-> "ok", v |-> v]
Bad == [st |-> "bad"]

\* staticData stands for a key no tool schema declares.
Fields ==
  {"instance", "workflowId", "executionId", "query", "name", "tags", "limit",
   "status", "active", "nodes", "connections", "settings", "staticData"}

\* An arguments object, a parsed-arguments object, a query string and a JSON
\* body are maps from the keys present to their values.
NoArgs == <<>>
Get(m, f) == IF f \in DOMAIN m THEN m[f] ELSE Absent

\* An object literal some of whose values are undefined, with those keys left
\* out (as JSON.stringify, URLSearchParams and zod's output leave them out).
Compact(m) == [f \in {g \in DOMAIN m : m[g].st # "absent"} |-> m[f]]

KnownTools ==
  {"n8n_list_instances", "n8n_list_workflows", "n8n_search_workflows",
   "n8n_get_workflow", "n8n_create_workflow", "n8n_update_workflow",
   "n8n_delete_workflow", "n8n_toggle_workflow", "n8n_execute_workflow",
   "n8n_list_executions", "n8n_get_execution"}

DefaultListLimit == 100
DefaultExecLimit == 20
SearchPageSize == 200

\* tools.ts: the zod schemas.  req: required keys, opt: optional keys,
\* def: keys with .default(...).
Schema(name) ==
  CASE name = "n8n_list_instances" ->
         [req |-> {}, opt |-> {}, def |-> {}]
    [] name = "n8n_list_workflows" ->
         [req |-> {"instance"}, opt |-> {"active", "tags", "limit"}, def |-> {"limit"}]
    [] name = "n8n_search_workflows" ->
         [req |-> {"instance", "query"}, opt |-> {"active"}, def |-> {}]
    [] name = "n8n_get_workflow" ->
         [req |-> {"instance", "workflowId"}, opt |-> {}, def |-> {}]
    [] name = "n8n_create_workflow" ->
         [req |-> {"instance", "name"},
          opt |-> {"nodes", "connections", "settings", "active"}, def |-> {"active"}]
    [] name = "n8n_update_workflow" ->
         [req |-> {"instance", "workflowId"},
          opt |-> {"name", "nodes", "connections", "settings", "active"}, def |-> {}]
    [] name = "n8n_delete_workflow" ->
         [req |-> {"instance", "workflowId"}, opt |-> {}, def |-> {}]
    [] name = "n8n_toggle_workflow" ->
         [req |-> {"instance", "workflowId", "active"}, opt |-> {}, def |-> {}]
    [] name = "n8n_execute_workflow" ->
         [req |-> {"instance", "workflowId"}, opt |-> {}, def |-> {}]
    [] name = "n8n_list_executions" ->
         [req |-> {"instance"}, opt |-> {"workflowId", "status", "limit"}, def |-> {"limit"}]
    [] name = "n8n_get_execution" ->
         [req |-> {"instance", "executionId"}, opt |-> {}, def |-> {}]

SchemaDefault(name, f) ==
  CASE name = "n8n_list_workflows" -> Ok(DefaultListLimit)
    [] name = "n8n_list_executions" -> Ok(DefaultExecLimit)
    [] name = "n8n_create_workflow" -> Ok(FALSE)

\* Schema.parse(args) letting an ill-typed optional key through.
SchemaParseLenient(name, input) ==
  LET s == Schema(name) IN
  [ok   |-> /\ input.given
            /\ \A f \in s.req : Get(input.f, f).st = "ok",
   data |-> Compact([f \in s.req \cup s.opt |->
                       IF Get(input.f, f).st = "absent" /\ f \in s.def
                         THEN SchemaDefault(name, f)
                         ELSE Get(input.f, f)])]

\* Schema.parse(args): a z.object rejects a missing arguments object, a
\* missing or ill-typed required key and an ill-typed optional key; it
\* strips undeclared keys and fills in defaults.
SchemaParse(name, input) ==
  LET s == Schema(name) IN
  [ok   |-> /\ input.given
            /\ \A f \in s.req : Get(input.f, f).st = "ok"
            /\ \A f \in s.opt : Get(input.f, f).st # "bad",
   data |-> Compact([f \in s.req \cup s.opt |->
                       IF Get(input.f, f).st = "absent" /\ f \in s.def
                         THEN SchemaDefault(name, f)
                         ELSE Get(input.f, f)])]

(***************************************************************************)
(* Errors and handler outcomes                                             *)
(***************************************************************************)
\* An Error object: its class and its message text (a sequence of fragments).
Err(tag, text) == [tag |-> tag, text |-> text]

Throw(e) == [k |-> "throw", err |-> e]
Return(v) == [k |-> "return", val |-> v]

(***************************************************************************)
(* n8n-client.ts: N8NClient                                                *)
(***************************************************************************)
NoQuery == <<>>

NoBody == [sent |-> FALSE, json |-> <<>>]

\* A request path: /<res>, /<res>/<id> or /<res>/<id>/<action>.
Path(res, id, action) == [res |-> res, id |-> id, action |-> action]

\* What a client method hands to request(): method, path, query string, body.
Op(method, path, query, body) ==
  [method |-> method, path |-> path, query |-> query, body |-> body]

\* JavaScript truthiness of an optional string or number option.
TruthyStr(a) == a.st = "ok" /\ a.v # <<>>
TruthyNum(a) == a.st = "ok" /\ a.v # 0

\* listWorkflows(options): active when not undefined, tags / limit when truthy.
ClientListWorkflows(active, tags, limit) ==
  Op("GET", Path("workflows", Absent, ""),
     Compact([active |-> active,
              tags |-> IF TruthyStr(tags) THEN tags ELSE Absent,
              limit |-> IF TruthyNum(limit) THEN limit ELSE Absent]),
     NoBody)

ClientGetWorkflow(id) == Op("GET", Path("workflows", Ok(id), ""), NoQuery, NoBody)

\* request(): if (body) options.body = JSON.stringify(body).  An object is
\* truthy, and JSON.stringify leaves out keys whose value is undefined.
JsonBody(obj) == [sent |-> TRUE, json |-> Compact(obj)]

ClientCreateWorkflow(workflow) ==
  Op("POST", Path("workflows", Absent, ""), NoQuery, JsonBody(workflow))

ClientUpdateWorkflow(id, workflow) ==
  Op("PUT", Path("workflows", Ok(id), ""), NoQuery, JsonBody(workflow))

ClientDeleteWorkflow(id) ==
  Op("DELETE", Path("workflows", Ok(id), ""), NoQuery, NoBody)

ClientActivateWorkflow(id) ==
  Op("POST", Path("workflows", Ok(id), "activate"), NoQuery, NoBody)

ClientDeactivateWorkflow(id) ==
  Op("POST", Path("workflows", Ok(id), "deactivate"), NoQuery, NoBody)

ClientExecuteWorkflow(id) ==
  Op("POST", Path("workflows", Ok(id), "run"), NoQuery, NoBody)

\* listExecutions(options): workflowId / status / limit when truthy.
ClientListExecutions(workflowId, status, limit) ==
  Op("GET", Path("executions", Absent, ""),
     Compact([workflowId |-> IF TruthyStr(workflowId) THEN workflowId ELSE Absent,
              status |-> IF status.st = "ok" THEN status ELSE Absent,
              limit |-> IF TruthyNum(limit) THEN limit ELSE Absent]),
     NoBody)

ClientGetExecution(id) == Op("GET", Path("executions", Ok(id), ""), NoQuery, NoBody)

\* The fetch() call of request(): the URL is the bound instance's url plus
\* /api/v1 plus the path, the X-N8N-API-KEY header is its apiKey.
FetchOfFirst(insts, idx, op) ==
  [origin |-> insts[1].url, prefix |-> "/api/v1", apiKey |-> insts[1].apiKey,
   method |-> op.method, path |-> op.path, query |-> op.query, body |-> op.body]

Fetch(insts, idx, op) ==
  [origin |-> insts[idx].url, prefix |-> "/api/v1", apiKey |-> insts[idx].apiKey,
   method |-> op.method, path |-> op.path, query |-> op.query, body |-> op.body]

(***************************************************************************)
(* Backend replies.  A reply is a network failure (fetch rejects) or an    *)
(* HTTP response with a status and a body; the body is unparseable or is   *)
(* JSON text for null or for an object.                                    *)
(***************************************************************************)
Unparseable == [parses |-> FALSE]
JsonNull == [parses |-> TRUE, type |-> "null"]
\* message: the "message" key; data: the "data" key (a list); entity: whether
\* the object carries the id / name / ... keys of a workflow or an execution.
JsonObject(message, data, entity) ==
  [parses |-> TRUE, type |-> "object", message |-> message, data |-> data,
   entity |-> entity]
Undefined == [parses |-> TRUE, type |-> "undefined"]

NetworkFailure == [kind |-> "network"]
Http(status, body) == [kind |-> "http", status |-> status, body |-> body]

StatusText(status) ==
  CASE status = 200 -> "OK"
    [] status = 201 -> "Created"
    [] status = 204 -> "No Content"
    [] status = 404 -> "Not Found"
    [] status = 500 -> "Internal Server Error"

StatusDigits(status) ==
  CASE status = 200 -> "200"
    [] status = 201 -> "201"
    [] status = 204 -> "204"
    [] status = 404 -> "404"
    [] status = 500 -> "500"

\* response.ok
ResponseOk(status) == status >= 200 /\ status <= 299

\* The error branch of request(): errorBody.message when the body parses and
\* the message is truthy (reading .message of null throws inside the try and
\* is swallowed), else "HTTP <status>: <statusText>".
ErrorMessage(reply) ==
  IF /\ reply.body.parses
     /\ reply.body.type = "object"
     /\ TruthyStr(reply.body.message)
    THEN reply.body.message.v
    ELSE <<"HTTP ", StatusDigits(reply.status), ": ", StatusText(reply.status)>>

\* request() calling response.json() before looking at the 204 status.
RequestResultParsesFirst(reply) ==
  IF reply.kind = "network"
    THEN Throw(Err("TypeError", <<"fetch failed">>))
  ELSE IF ~ResponseOk(reply.status)
    THEN Throw(Err("Error", <<"N8N API Error: ">> \o ErrorMessage(reply)))
  ELSE IF ~reply.body.parses
    THEN Throw(Err("SyntaxError", <<"Unexpected token">>))
  ELSE IF reply.status = 204
    THEN Return(Undefined)
  ELSE Return(reply.body)

\* request() after await fetch(...).
RequestResult(reply) ==
  IF reply.kind = "network"
    THEN Throw(Err("TypeError", <<"fetch failed">>))
  ELSE IF ~ResponseOk(reply.status)
    THEN Throw(Err("Error", <<"N8N API Error: ">> \o ErrorMessage(reply)))
  ELSE IF reply.status = 204
    THEN Return(Undefined)
  ELSE IF ~reply.body.parses
    THEN Throw(Err("SyntaxError", <<"Unexpected token">>))
  ELSE Return(reply.body)

(***************************************************************************)
(* tools.ts: N8NToolHandlers                                               *)
(***************************************************************************)
\* A handler's text result: the output of JSON.stringify(doc, null, 2), or a
\* string literal returned as it is.
JsonStringify(doc) == [fmt |-> "json", doc |-> doc]
PlainText(str) == [fmt |-> "plain", str |-> str]

\* this.instances.map((i) => i.name).join(', ')
RECURSIVE JoinNames(_, _)
JoinNames(insts, i) ==
  IF i > Len(insts) THEN <<>>
  ELSE IF i = Len(insts) THEN insts[i].name
  ELSE insts[i].name \o <<", ">> \o JoinNames(insts, i + 1)

NotFoundText(insts, instanceName) ==
  LET available == JoinNames(insts, 1) IN
  <<"Instance \"">> \o instanceName \o <<"\" not found. Available instances: ">>
    \o (IF available = <<>> THEN <<"none">> ELSE available)

\* getClient answering with the first instance when the name is unknown.
getClientLenient(insts, instanceName) ==
  LET r == getInstanceByName(insts, instanceName) IN
  IF ~r.found /\ Len(insts) = 0
    THEN Throw(Err("Error", NotFoundText(insts, instanceName)))
    ELSE Return(IF r.found THEN r.index ELSE 1)

\* getClient(instanceName): the index of the instance the new N8NClient is
\* bound to, or the "not found" Error.
getClient(insts, instanceName) ==
  LET r == getInstanceByName(insts, instanceName) IN
  IF ~r.found
    THEN Throw(Err("Error", NotFoundText(insts, instanceName)))
    ELSE Return(r.index)

NoInstancesText ==
  "No N8N instances configured. Set N8N_INSTANCES or N8N_URL/N8N_API_KEY environment variables."

\* listInstances()
listInstances(insts) ==
  IF Len(insts) = 0
    THEN Return(PlainText(NoInstancesText))
    ELSE Return(JsonStringify(
           [count |-> Len(insts),
            instances |-> [i \in 1..Len(insts) |->
                             [name |-> insts[i].name, url |-> insts[i].url]]]))

\* updateWorkflow built like createWorkflow: every key copied, active defaulted.
UpdateDataFilled(d) ==
  [name |-> Get(d, "name"), nodes |-> Get(d, "nodes"),
   connections |-> Get(d, "connections"), settings |-> Get(d, "settings"),
   active |-> IF "active" \in DOMAIN d THEN d["active"] ELSE Ok(FALSE)]

\* updateWorkflow: updateData gets a key for each of name, nodes, connections,
\* settings, active that is not undefined.
UpdateData(d) ==
  [f \in {g \in {"name", "nodes", "connections", "settings", "active"} :
            g \in DOMAIN d} |-> d[f]]

\* toggleWorkflow going through the generic update.
ToggleOpViaUpdate(d) ==
  ClientUpdateWorkflow(d.workflowId.v, [active |-> d.active])

\* toggleWorkflow: args.active ? activateWorkflow(id) : deactivateWorkflow(id)
ToggleOp(d) ==
  IF d.active.v THEN ClientActivateWorkflow(d.workflowId.v)
                ELSE ClientDeactivateWorkflow(d.workflowId.v)

\* searchWorkflows fetching with the caller-independent default page.
SearchOpUnlimited(d) == ClientListWorkflows(Get(d, "active"), Absent, Absent)

\* searchWorkflows: client.listWorkflows({active: args.active, limit: 200})
SearchOp(d) == ClientListWorkflows(Get(d, "active"), Absent, Ok(SearchPageSize))

\* The client operation each handler calls with the parsed arguments d.
HandlerOp(name, d) ==
  CASE name = "n8n_list_workflows" ->
         ClientListWorkflows(Get(d, "active"), Get(d, "tags"), Get(d, "limit"))
    [] name = "n8n_search_workflows" -> SearchOp(d)
    [] name = "n8n_get_workflow" -> ClientGetWorkflow(d.workflowId.v)
    [] name = "n8n_create_workflow" ->
         ClientCreateWorkflow(
           [name |-> Get(d, "name"), nodes |-> Get(d, "nodes"),
            connections |-> Get(d, "connections"), settings |-> Get(d, "settings"),
            active |-> Get(d, "active")])
    [] name = "n8n_update_workflow" -> ClientUpdateWorkflow(d.workflowId.v, UpdateData(d))
    [] name = "n8n_delete_workflow" -> ClientDeleteWorkflow(d.workflowId.v)
    [] name = "n8n_toggle_workflow" -> ToggleOp(d)
    [] name = "n8n_execute_workflow" -> ClientExecuteWorkflow(d.workflowId.v)
    [] name = "n8n_list_executions" ->
         ClientListExecutions(Get(d, "workflowId"), Get(d, "status"), Get(d, "limit"))
    [] name = "n8n_get_execution" -> ClientGetExecution(d.executionId.v)

\* Reading a property of undefined or null.
TypeErrorRead == Throw(Err("TypeError", <<"Cannot read properties of undefined">>))

IsObject(j) == j.type = "object"
HasData(j) == IsObject(j) /\ j.data.has

\* w.name.toLowerCase().includes(query): query occurs in name as a substring.
Includes(name, query) ==
  \E i \in 0..(Len(name) - Len(query)) : SubSeq(name, i + 1, i + Len(query)) = query

\* result.data.filter((w) => w.name.toLowerCase().includes(query)), with
\* query = args.query.toLowerCase()
SearchMatches(w, query) == Includes(toLowerCase(w.name), toLowerCase(query))

\* The part of each handler after its await: the projection of the backend's
\* answer j into the text result.
HandlerProject(name, d, j) ==
  CASE name = "n8n_list_workflows" ->
         IF ~HasData(j) THEN TypeErrorRead
         ELSE Return(JsonStringify(
                [instance |-> d.instance.v, count |-> Len(j.data.items),
                 workflows |-> j.data.items]))
    [] name = "n8n_search_workflows" ->
         IF ~HasData(j) THEN TypeErrorRead
         ELSE LET filtered == SelectSeq(j.data.items,
                                LAMBDA w : SearchMatches(w, d.query.v)) IN
              Return(JsonStringify(
                [instance |-> d.instance.v, query |-> d.query.v,
                 count |-> Len(filtered), workflows |-> filtered]))
    [] name = "n8n_get_workflow" ->
         IF ~IsObject(j) THEN TypeErrorRead
         ELSE Return(JsonStringify(
                [instance |-> d.instance.v, workflow |-> [known |-> j.entity]]))
    [] name = "n8n_create_workflow" ->
         IF ~IsObject(j) THEN TypeErrorRead
         ELSE Return(JsonStringify(
                [instance |-> d.instance.v,
                 message |-> "Workflow created successfully",
                 workflow |-> [known |-> j.entity]]))
    [] name = "n8n_update_workflow" ->
         IF ~IsObject(j) THEN TypeErrorRead
         ELSE Return(JsonStringify(
                [instance |-> d.instance.v,
                 message |-> "Workflow updated successfully",
                 workflow |-> [known |-> j.entity]]))
    [] name = "n8n_delete_workflow" ->
         Return(JsonStringify(
           [instance |-> d.instance.v,
            message |-> <<"Workflow ">> \o d.workflowId.v \o <<" deleted successfully">>]))
    [] name = "n8n_toggle_workflow" ->
         IF ~IsObject(j) THEN TypeErrorRead
         ELSE Return(JsonStringify(
                [instance |-> d.instance.v,
                 message |-> IF d.active.v THEN "Workflow activated successfully"
                                           ELSE "Workflow deactivated successfully",
                 workflow |-> [known |-> j.entity]]))
    [] name = "n8n_execute_workflow" ->
         IF ~HasData(j) THEN TypeErrorRead
         ELSE Return(JsonStringify(
                [instance |-> d.instance.v,
                 message |-> "Workflow execution started",
                 workflowId |-> d.workflowId.v]))
    [] name = "n8n_list_executions" ->
         IF ~HasData(j) THEN TypeErrorRead
         ELSE Return(JsonStringify(
                [instance |-> d.instance.v, count |-> Len(j.data.items),
                 executions |-> j.data.items]))
    [] name = "n8n_get_execution" ->
         IF ~IsObject(j) THEN TypeErrorRead
         ELSE Return(JsonStringify(
                [instance |-> d.instance.v, execution |-> [known |-> j.entity]]))

\* A handler that calls the client once more when the call was rejected.
HandlerResumeRetrying(name, d, r) ==
  IF r.k = "throw"
    THEN [k |-> "await", client |-> 0, data |-> d, req |-> HandlerOp(name, d)]
    ELSE HandlerProject(name, d, r.val)

\* A handler after its await: the client's rejection propagates, its value
\* is projected.
HandlerResume(name, d, r) ==
  IF r.k = "throw" THEN r ELSE HandlerProject(name, d, r.val)

(***************************************************************************)
(* index.ts: the CallTool request handler                                  *)
(***************************************************************************)
\* The switch of the CallTool handler up to the handler's first await:
\* unknown name, Schema.parse(args), then the handler's synchronous part
\* (getClient and the fetch it issues).
HandlerStart(name, input, insts) ==
  IF name \notin KnownTools
    THEN Throw(Err("Error", <<"Unknown tool: ", name>>))
  ELSE LET p == SchemaParse(name, input) IN
    IF ~p.ok THEN Throw(Err("ZodError", <<"invalid arguments">>))
    ELSE IF name = "n8n_list_instances" THEN listInstances(insts)
    ELSE LET c == getClient(insts, p.data.instance.v) IN
      IF c.k = "throw" THEN c
      ELSE [k |-> "await", client |-> c.val, data |-> p.data,
            req |-> Fetch(insts, c.val, HandlerOp(name, p.data))]

\* A try block that lets the default case's Error through.
CatchesHandlerErrorsOnly(h) == h.err.text[1] # "Unknown tool: "

\* try { switch ... } catch (error) { ... }: the try block encloses the whole
\* switch, so every throw of a parse, a handler or the default case is caught.
Catches(h) == TRUE

\* The value the CallTool handler returns: { content: [{type: 'text', text}] }
\* from the try block, the same with text = JSON.stringify({error: message})
\* and isError: true from the catch block.
Envelope(h) ==
  IF h.k = "return"
    THEN [text |-> h.val, isError |-> FALSE]
    ELSE [text |-> JsonStringify([error |-> h.err.text]), isError |-> TRUE]

IdleCall ==
  [pc |-> "idle", name |-> "", input |-> [given |-> FALSE, f |-> <<>>],
   data |-> <<>>, client |-> 0, reqs |-> <<>>, replies |-> <<>>,
   outcomes |-> <<>>, results |-> <<>>, escaped |-> FALSE,
   sid |-> Absent, via |-> 0]

\* The CallTool handler settling with handler outcome h (a return or a throw).
Settle(call, h) ==
  IF h.k = "throw" /\ ~Catches(h)
    THEN [call EXCEPT !.pc = "done", !.escaped = TRUE]
    ELSE [call EXCEPT !.pc = "done", !.results = Append(@, Envelope(h))]

\* The CallTool handler of a call record: it runs up to the handler's first
\* await, or to its end when it does not reach one.
Dispatch(call, name, input, insts) ==
  LET h == HandlerStart(name, input, insts)
      started == [call EXCEPT !.name = name, !.input = input] IN
  IF h.k = "await"
    THEN [started EXCEPT !.pc = "awaiting", !.data = h.data,
                         !.client = h.client, !.reqs = <<h.req>>]
    ELSE Settle(started, h)

\* The CallTool handler resumed with the settlement r of request(): it
\* settles, or awaits the next request it issues.
Resume(call, r) ==
  LET h == HandlerResume(call.name, call.data, r) IN
  IF h.k = "await"
    THEN [call EXCEPT !.reqs = Append(@, h.req)]
    ELSE Settle(call, h)

(***************************************************************************)
(* index.ts: startSSEServer                                                *)
(***************************************************************************)
\* A Map<string, SSEServerTransport> is the sequence of its entries in
\* insertion order.  set() of a key the map holds replaces the value and
\* leaves the entry where it is; delete() of a key it does not hold does
\* nothing.
MapHas(m, k) == \E i \in 1..Len(m) : m[i].key = k
MapGet(m, k) == m[CHOOSE i \in 1..Len(m) : m[i].key = k].val
MapSet(m, k, v) ==
  IF MapHas(m, k)
    THEN [i \in 1..Len(m) |-> IF m[i].key = k THEN [key |-> k, val |-> v] ELSE m[i]]
    ELSE Append(m, [key |-> k, val |-> v])
MapDelete(m, k) == SelectSeq(m, LAMBDA e : e.key # k)
\* Array.from(activeTransports.values())
MapValues(m) == [i \in 1..Len(m) |-> m[i].val]

Digits == <<"0", "1", "2", "3", "4", "5", "6", "7", "8", "9">>

\* Number.prototype.toString() of a non-negative integer: its decimal digits.
RECURSIVE ToDecimal(_)
ToDecimal(n) ==
  IF n < 10 THEN <<Digits[n + 1]>>
  ELSE ToDecimal(n \div 10) \o <<Digits[(n % 10) + 1]>>

\* const sessionId = Date.now().toString()
NewSessionId(now) == ToDecimal(now)

\* The branch of the request handler a request takes with the OPTIONS test
\* left out.
RouteWithoutPreflight(method, pathname) ==
  IF pathname = "/health" /\ method = "GET" THEN "health"
  ELSE IF pathname = "/sse" /\ method = "GET" THEN "sse"
  ELSE IF pathname = "/messages" /\ method = "POST" THEN "messages"
  ELSE IF pathname = "/" /\ method = "GET" THEN "root"
  ELSE "notFound"

\* The branch of the request handler a request takes: the if statements of
\* the createServer callback in their order.
Route(method, pathname) ==
  IF method = "OPTIONS" THEN "preflight"
  ELSE IF pathname = "/health" /\ method = "GET" THEN "health"
  ELSE IF pathname = "/sse" /\ method = "GET" THEN "sse"
  ELSE IF pathname = "/messages" /\ method = "POST" THEN "messages"
  ELSE IF pathname = "/" /\ method = "GET" THEN "root"
  ELSE "notFound"

\* A response ended without writeHead: the status stays the default 200.
ResponseWithoutHead(method, pathname, status, body) ==
  [seen |-> TRUE, method |-> method, pathname |-> pathname, status |-> 200,
   body |-> body]

NoHttp == [seen |-> FALSE, method |-> "", pathname |-> "", status |-> 0, body |-> ""]
Response(method, pathname, status, body) ==
  [seen |-> TRUE, method |-> method, pathname |-> pathname, status |-> status,
   body |-> body]

\* What the branches that answer by themselves write: status and JSON body.
Answer(method, pathname) ==
  CASE Route(method, pathname) = "preflight" -> Response(method, pathname, 204, "")
    [] Route(method, pathname) = "health" -> Response(method, pathname, 200, "health")
    [] Route(method, pathname) = "root" -> Response(method, pathname, 200, "info")
    [] Route(method, pathname) = "notFound" -> Response(method, pathname, 404, "Not found")

NoTransport == 0

\* The /messages branch always taking the first transport of the table.
RouteMessageToFirst(table, sessionId) ==
  IF Len(MapValues(table)) > 0 THEN MapValues(table)[1] ELSE NoTransport

\* The /messages branch: the transport stored under sessionId when sessionId
\* is truthy and the table has it, else transports[0], else none.
RouteMessage(table, sessionId) ==
  IF TruthyStr(sessionId) /\ MapHas(table, sessionId.v)
    THEN MapGet(table, sessionId.v)
  ELSE IF Len(MapValues(table)) > 0 THEN MapValues(table)[1]
  ELSE NoTransport

NotConnected == [st |-> "none", key |-> <<>>]

\* A response handed to whichever transport the table lists first when the
\* call's own connection is closed.
DeliverToAnyOpen(call, cs, table) ==
  IF call.via = NoTransport THEN NoTransport
  ELSE IF cs[call.via].st = "open" THEN call.via
  ELSE IF Len(MapValues(table)) > 0 THEN MapValues(table)[1]
  ELSE NoTransport

\* Where the answer of a call is written.  Each GET /sse creates its own
\* server and connects it to its own transport, and a server sends the
\* response of a request over the transport it is connected to: the event
\* stream of that connection while it is open, nowhere once it is closed.
Deliver(call, cs, table) ==
  IF call.via = NoTransport THEN NoTransport
  ELSE IF cs[call.via].st = "open" THEN call.via
  ELSE NoTransport

\* The event streams after call c took a step to the record `call`.
Written(sent, c, call, cs, table) ==
  IF call.pc = "done" /\ call.results # <<>> /\ Deliver(call, cs, table) # NoTransport
    THEN [sent EXCEPT ![Deliver(call, cs, table)] = Append(@, c)]
    ELSE sent

\* A fetch that keeps the thread until the answer has arrived.
EventLoopFreeBlocking(cs) == \A c \in DOMAIN cs : cs[c].pc # "awaiting"

\* Whether the event loop can run the next request handler.  `await fetch`
\* suspends the calling handler only, so calls in flight do not keep it busy.
EventLoopFree(cs) == TRUE

(***************************************************************************)
(* The environment the server is started in                                *)
(***************************************************************************)
UrlH == <<"h">>
UrlG == <<"g">>
KeyH == <<"k", "h">>
KeyG == <<"k", "g">>

NoTriple == [name |-> Unset, url |-> Unset, apiKey |-> Unset]
Triple(name, url, apiKey) == [name |-> Str(name), url |-> Str(url), apiKey |-> Str(apiKey)]
Entry(t) == [kind |-> "object", name |-> t.name, url |-> t.url, apiKey |-> t.apiKey]
NullEntry == [kind |-> "null", name |-> Unset, url |-> Unset, apiKey |-> Unset]

NoNumbered == <<>>
NoJson == [kind |-> "unset", items |-> <<>>]
JsonArray(items) == [kind |-> "array", items |-> items]

Env(json, numbered, legacy) == [json |-> json, numbered |-> numbered, legacy |-> legacy]

\* Entries of the N8N_INSTANCES array the configuration runs draw from.
JsonEntries ==
  {NullEntry,
   [kind |-> "object", name |-> Str(<<"p">>), url |-> Str(UrlH), apiKey |-> Unset],
   [kind |-> "object", name |-> Str(<<>>), url |-> Str(UrlH), apiKey |-> Str(KeyH)]}
  \cup {Entry(Triple(n, u, KeyH)) :
          n \in {<<"p">>, <<"P">>},
          u \in {UrlH, UrlH \o <<"/">>, UrlH \o <<"/", "/">>}}

JsonValues ==
  {NoJson, [kind |-> "empty", items |-> <<>>], [kind |-> "invalid", items |-> <<>>],
   [kind |-> "scalar", items |-> <<>>]}
  \cup {JsonArray(items) : items \in UNION {[1..n -> JsonEntries] : n \in 0..MaxJsonLen}}

\* The numbered variables that may be set: the first ones and the last one.
NumberedIdx == 1..(MaxNumberedSet - 1) \cup {MaxNumbered}

NumberedTriples ==
  {NoTriple, Triple(<<"d">>, UrlG \o <<"/">>, KeyG), Triple(<<"P">>, UrlG, KeyG)}

\* The numbered part of the environment: a map from the indices set to
\* their triples.
NumberedValues ==
  UNION {[idx -> NumberedTriples \ {NoTriple}] : idx \in SUBSET NumberedIdx}

LegacyValues ==
  {NoTriple,
   [name |-> Unset, url |-> Str(UrlG \o <<"/">>), apiKey |-> Str(KeyG)],
   [name |-> Str(<<"p">>), url |-> Str(UrlG \o <<"/", "/">>), apiKey |-> Str(KeyG)],
   [name |-> Str(<<"p">>), url |-> Str(UrlG), apiKey |-> Unset]}

ConfigEnvs ==
  {Env(j, n, l) : j \in JsonValues, n \in NumberedValues, l \in LegacyValues}

\* The environments of the tool-call runs: nothing configured; "P" and "d"
\* in N8N_INSTANCES; "p" and "P" (equal under case folding) as numbered ones.
ToolEnvs ==
  {Env(NoJson, NoNumbered, NoTriple),
   Env(JsonArray(<<Entry(Triple(<<"P">>, UrlH \o <<"/">>, KeyH)),
                   Entry(Triple(<<"d">>, UrlG, KeyG))>>), NoNumbered, NoTriple),
   Env(NoJson,
       <<Triple(<<"p">>, UrlH, KeyH), Triple(<<"P">>, UrlG, KeyG)>>, NoTriple)}

LookupNames == {<<"p">>, <<"P">>, <<"d">>, <<"D">>, <<"p", "p">>, <<>>}

NoLookup == [asked |-> FALSE, name |-> <<>>, result |-> NotFound]

(***************************************************************************)
(* Tool calls the clients make                                             *)
(***************************************************************************)
Opt(vals) == {Absent} \cup {Ok(v) : v \in vals}

InstanceArgs == {Bad} \cup Opt({<<"p">>, <<"D">>, <<"x">>})
IdArgs == Opt({<<"7">>})
QueryArgs == Opt({<<>>, <<"a", "B">>, <<"b">>})
Flag == Opt({TRUE, FALSE})
Thing == Opt({"value"})

Input(f) == [given |-> TRUE, f |-> Compact(f)]
NoInput == [given |-> FALSE, f |-> NoArgs]

\* The argument objects drawn for each tool name.
ToolInputs(name) ==
  CASE name = "n8n_list_instances" -> {NoInput, Input(<<>>)}
    [] name = "n8n_list_workflows" ->
         {Input([instance |-> i, active |-> a, tags |-> t, limit |-> l]) :
            i \in InstanceArgs, a \in Opt({TRUE}), t \in Opt({<<>>, <<"t">>}),
            l \in {Bad} \cup Opt({0, 1})}
    [] name = "n8n_search_workflows" ->
         {Input([instance |-> i, query |-> q, active |-> a]) :
            i \in InstanceArgs, q \in QueryArgs, a \in Opt({FALSE})}
    [] name \in {"n8n_get_workflow", "n8n_delete_workflow", "n8n_execute_workflow"} ->
         {Input([instance |-> i, workflowId |-> w]) :
            i \in InstanceArgs, w \in IdArgs}
    [] name = "n8n_create_workflow" ->
         {Input([instance |-> i, name |-> n, nodes |-> x, active |-> a]) :
            i \in InstanceArgs, n \in Opt({<<"n">>}), x \in Thing, a \in Flag}
    [] name = "n8n_update_workflow" ->
         {Input([instance |-> i, workflowId |-> w, name |-> n,
                               nodes |-> x, connections |-> y, settings |-> z,
                               active |-> a, staticData |-> u]) :
            i \in Opt({<<"p">>, <<"x">>}), w \in IdArgs, n \in Opt({<<"n">>}),
            x \in Thing, y \in Thing, z \in Thing, a \in Flag, u \in Thing}
    [] name = "n8n_toggle_workflow" ->
         {Input([instance |-> i, workflowId |-> w, active |-> a]) :
            i \in InstanceArgs, w \in IdArgs, a \in {Bad} \cup Flag}
    [] name = "n8n_list_executions" ->
         {Input([instance |-> i, workflowId |-> w, status |-> st,
                               limit |-> l]) :
            i \in InstanceArgs, w \in IdArgs, st \in {Bad} \cup Opt({"error"}),
            l \in Opt({5})}
    [] name = "n8n_get_execution" ->
         {Input([instance |-> i, executionId |-> x]) :
            i \in InstanceArgs, x \in IdArgs}
    [] OTHER -> {NoInput, Input([instance |-> Ok(<<"p">>)])}

ToolNames == KnownTools \cup {"n8n_restart_instance"}

\* The calls of the runs with several calls in flight.
ConcurrentNames == {"n8n_list_workflows", "n8n_toggle_workflow"}

ConcurrentInputs(name) ==
  {Input([instance |-> Ok(i), workflowId |-> Ok(<<"7">>),
                        active |-> Ok(TRUE)]) : i \in {<<"p">>, <<"D">>, <<"x">>}}

(***************************************************************************)
(* The backends.  A backend holds a list of workflows (or executions) and  *)
(* answers a list request with the first `limit` of them.                  *)
(***************************************************************************)
WfNames == {<<"A", "b">>, <<"b", "A">>, <<"B">>}
NameCycle == <<<<"A", "b">>, <<"b", "a">>, <<"c">>>>

Items(names) == [i \in 1..Len(names) |-> [id |-> i, name |-> names[i]]]

BackendLists ==
  {Items(names) : names \in UNION {[1..n -> WfNames] : n \in 0..MaxPage}}
  \cup {Items([i \in 1..BigBackend |-> NameCycle[(i % 3) + 1]])}

Min(a, b) == IF a <= b THEN a ELSE b

\* The page a backend holding `all` returns for a list request.
BackendPage(all, query) ==
  IF "limit" \in DOMAIN query THEN SubSeq(all, 1, Min(query["limit"].v, Len(all))) ELSE all

IsListRequest(req) == req.method = "GET" /\ req.path.id.st = "absent"

EmptyObject == JsonObject(Absent, [has |-> FALSE, items |-> <<>>], FALSE)

\* The well-formed 2xx bodies for a request: a page for a list request, an
\* entity (with a data key) for the others.
ShapedBodies(req) ==
  IF IsListRequest(req)
    THEN {JsonObject(Absent, [has |-> TRUE, items |-> BackendPage(all, req.query)], FALSE) :
            all \in BackendLists}
    ELSE {JsonObject(Absent, [has |-> TRUE, items |-> <<>>], TRUE)}

ErrorBodies ==
  {Unparseable, JsonNull, EmptyObject,
   JsonObject(Ok(<<>>), [has |-> FALSE, items |-> <<>>], FALSE),
   JsonObject(Ok(<<"boom">>), [has |-> FALSE, items |-> <<>>], FALSE)}

\* Every way the backend may answer a request.
Replies(req) ==
  {NetworkFailure, Http(204, Unparseable), Http(500, Unparseable)}
  \cup {Http(404, b) : b \in ErrorBodies}
  \cup {Http(200, b) : b \in {Unparseable, JsonNull, EmptyObject} \cup ShapedBodies(req)}
  \cup {Http(201, EmptyObject)}

ConcurrentReplies(req) ==
  {NetworkFailure,
   Http(200, JsonObject(Absent, [has |-> TRUE, items |-> <<>>], TRUE))}

\* The answers open to a call: those to the request it is waiting on.
RepliesTo(call) ==
  IF call.pc = "awaiting" THEN Replies(call.reqs[Len(call.reqs)]) ELSE {}
ConcurrentRepliesTo(call) ==
  IF call.pc = "awaiting" THEN ConcurrentReplies(call.reqs[Len(call.reqs)]) ELSE {}

(***************************************************************************)
(* The clients of the HTTP server                                          *)
(***************************************************************************)
ConnIds == 1..MaxConns

\* The instants Date.now() takes during a run.
Instants == 9..(9 + MaxTicks)

Methods == {"GET", "POST", "OPTIONS", "DELETE"}
Pathnames == {"/", "/health", "/sse", "/messages", "/metrics"}

\* The sessionId query parameter of a POST: absent, empty, or the decimal
\* form of an instant.
SessionIdArgs == Opt({<<>>} \cup {ToDecimal(t) : t \in Instants})

\* The tool calls posted in the streaming runs: one that answers without a
\* backend request and one that makes a request.
StreamEnv ==
  Env(JsonArray(<<Entry(Triple(<<"P">>, UrlH \o <<"/">>, KeyH)),
                  Entry(Triple(<<"d">>, UrlG, KeyG))>>), NoNumbered, NoTriple)

\* The session ids of the runs with calls in flight: well-formed ones.
StreamSessionIdArgs == {Ok(ToDecimal(t)) : t \in Instants}

\* A call that makes a backend request, and the answers to it.
StreamInput == Input([instance |-> Ok(<<"p">>), workflowId |-> Ok(<<"7">>)])

StreamRepliesTo(call) ==
  IF call.pc = "awaiting"
    THEN {Http(200, JsonObject(Absent, [has |-> TRUE, items |-> <<>>], TRUE))}
    ELSE {}

(***************************************************************************)
(* Actions                                                                 *)
(***************************************************************************)
CallIds == 1..MaxCalls

\* Module start of index.ts: const instances = loadInstances().
Load ==
  /\ phase = "boot"
  /\ phase' = "running"
  /\ instances' = loadInstances(env)
  /\ UNCHANGED <<env, lookup, calls>>
  /\ UNCHANGED streamVars

\* getInstanceByName(instances, name) on the loaded list.
Resolve(name) ==
  /\ phase = "running"
  /\ lookup' = [asked |-> TRUE, name |-> name,
                result |-> getInstanceByName(instances, name)]
  /\ UNCHANGED <<env, phase, instances, calls>>
  /\ UNCHANGED streamVars

\* A CallTool request arrives and runs up to the handler's first await, or to
\* its end when it does not reach one.
CallTool(c, name, input) ==
  /\ phase = "running"
  /\ calls[c].pc = "idle"
  /\ calls' = [calls EXCEPT ![c] = Dispatch(calls[c], name, input, instances)]
  /\ UNCHANGED <<env, phase, instances, lookup>>
  /\ UNCHANGED streamVars

\* The backend's answer arrives: request() and the handler resume.
BackendReply(c, reply) ==
  /\ calls[c].pc = "awaiting"
  /\ LET r == RequestResult(reply)
         call == [calls[c] EXCEPT !.replies = Append(@, reply),
                                  !.outcomes = Append(@, r)] IN
     /\ calls' = [calls EXCEPT ![c] = Resume(call, r)]
     /\ streams' = Written(streams, c, Resume(call, r), conns, activeTransports)
  /\ UNCHANGED <<env, phase, instances, lookup>>
  /\ UNCHANGED <<clock, conns, activeTransports, http>>

\* Time passes: Date.now() advances to the next instant at which the clock
\* is read.  The clock is read by GET /sse only, so the instants that count
\* are those at which some connection is opened.
Tick ==
  /\ phase = "running"
  /\ clock + 1 \in Instants
  /\ \E i \in ConnIds : conns[i].st # "none" /\ conns[i].key = NewSessionId(clock)
  /\ clock' = clock + 1
  /\ UNCHANGED <<env, phase, instances, lookup, calls>>
  /\ UNCHANGED <<conns, activeTransports, streams, http>>

\* A request one of the self-answering branches of the request handler takes:
\* OPTIONS, GET /health, GET / and the final 404.
HttpRequest(method, pathname) ==
  /\ phase = "running"
  /\ EventLoopFree(calls)
  /\ Route(method, pathname) \in {"preflight", "health", "root", "notFound"}
  /\ http' = Answer(method, pathname)
  /\ UNCHANGED <<env, phase, instances, lookup, calls>>
  /\ UNCHANGED <<clock, conns, activeTransports, streams>>

\* GET /sse: a transport is created on the response and stored under the
\* session id taken from the clock.  Connections are numbered in the order
\* in which they arrive.
OpenSse(method, pathname, conn) ==
  /\ phase = "running"
  /\ EventLoopFree(calls)
  /\ Route(method, pathname) = "sse"
  /\ conns[conn].st = "none"
  /\ \A i \in ConnIds : i < conn => conns[i].st # "none"
  /\ LET sessionId == NewSessionId(clock) IN
     /\ activeTransports' = MapSet(activeTransports, sessionId, conn)
     /\ conns' = [conns EXCEPT ![conn] = [st |-> "open", key |-> sessionId]]
  /\ UNCHANGED <<env, phase, instances, lookup, calls>>
  /\ UNCHANGED <<clock, streams, http>>

\* The close event of a connection's response: activeTransports.delete of
\* the session id the connection was registered under.
CloseSse(conn) ==
  /\ conns[conn].st = "open"
  /\ activeTransports' = MapDelete(activeTransports, conns[conn].key)
  /\ conns' = [conns EXCEPT ![conn].st = "closed"]
  /\ UNCHANGED <<env, phase, instances, lookup, calls>>
  /\ UNCHANGED <<clock, streams, http>>

\* POST /messages with a fallback that registers the session id it was given
\* under the transport it picked.
PostMessagesRegistering(method, pathname, sessionId, c, name, input) ==
  /\ phase = "running"
  /\ EventLoopFree(calls)
  /\ Route(method, pathname) = "messages"
  /\ calls[c].pc = "idle"
  /\ \A e \in CallIds : e < c => calls[e].pc # "idle"
  /\ LET transport == RouteMessage(activeTransports, sessionId) IN
     IF transport = NoTransport
       THEN /\ http' = Response(method, pathname, 400, "No active SSE connection")
            /\ UNCHANGED <<calls, streams, activeTransports>>
       ELSE LET call == Dispatch([calls[c] EXCEPT !.sid = sessionId, !.via = transport],
                                 name, input, instances) IN
            /\ calls' = [calls EXCEPT ![c] = call]
            /\ streams' = Written(streams, c, call, conns, activeTransports)
            /\ activeTransports' =
                 IF TruthyStr(sessionId)
                   THEN MapSet(activeTransports, sessionId.v, transport)
                   ELSE activeTransports
            /\ UNCHANGED http
  /\ UNCHANGED <<env, phase, instances, lookup>>
  /\ UNCHANGED <<clock, conns>>

\* POST /messages carrying a tools/call request: handed to the transport
\* the table gives, whose server runs the CallTool handler, or answered with
\* 400 when the table gives none.  Calls are numbered in the order in which
\* they arrive.
PostMessages(method, pathname, sessionId, c, name, input) ==
  /\ phase = "running"
  /\ EventLoopFree(calls)
  /\ Route(method, pathname) = "messages"
  /\ calls[c].pc = "idle"
  /\ \A e \in CallIds : e < c => calls[e].pc # "idle"
  /\ LET transport == RouteMessage(activeTransports, sessionId) IN
     IF transport = NoTransport
       THEN /\ http' = Response(method, pathname, 400, "No active SSE connection")
            /\ UNCHANGED <<calls, streams>>
       ELSE LET call == Dispatch([calls[c] EXCEPT !.sid = sessionId, !.via = transport],
                                 name, input, instances) IN
            /\ calls' = [calls EXCEPT ![c] = call]
            /\ streams' = Written(streams, c, call, conns, activeTransports)
            /\ UNCHANGED http
  /\ UNCHANGED <<env, phase, instances, lookup>>
  /\ UNCHANGED <<clock, conns, activeTransports>>

InitCommon ==
  /\ phase = "boot"
  /\ instances = <<>>
  /\ lookup = NoLookup
  /\ calls = [c \in CallIds |-> IdleCall]
  /\ clock = 9
  /\ conns = [i \in ConnIds |-> NotConnected]
  /\ activeTransports = <<>>
  /\ streams = [i \in ConnIds |-> <<>>]
  /\ http = NoHttp

\* One tool call at a time, every tool, every argument object, every reply.
Init == InitCommon /\ env \in ToolEnvs

Next ==
  \/ Load
  \/ \E c \in {1} : \E name \in ToolNames : \E input \in ToolInputs(name) :
       CallTool(c, name, input)
  \/ \E c \in {1} : \E reply \in RepliesTo(calls[c]) : BackendReply(c, reply)

Spec == Init /\ [][Next]_vars

\* Several calls in flight at once.
NextConcurrent ==
  \/ Load
  \/ \E c \in CallIds : \E name \in ConcurrentNames :
       \E input \in ConcurrentInputs(name) : CallTool(c, name, input)
  \/ \E c \in CallIds : \E reply \in ConcurrentRepliesTo(calls[c]) :
       BackendReply(c, reply)

SpecConcurrent == Init /\ [][NextConcurrent]_vars

\* Configuration loading and lookup over every environment.
InitConfig == InitCommon /\ env \in ConfigEnvs

NextConfig ==
  \/ Load
  \/ \E name \in LookupNames : Resolve(name)

SpecConfig == InitConfig /\ [][NextConfig]_vars

\* The session table: sessions open and close at the same or at different
\* instants, and tool calls that need no backend are posted with every kind
\* of session id.
InitStream == InitCommon /\ env = StreamEnv

NextSessions ==
  \/ Load
  \/ Tick
  \/ \E conn \in ConnIds : OpenSse("GET", "/sse", conn)
  \/ \E conn \in ConnIds : CloseSse(conn)
  \/ \E sessionId \in SessionIdArgs : \E c \in CallIds :
       PostMessages("POST", "/messages", sessionId, c, "n8n_list_instances", Input(<<>>))

SpecSessions == InitStream /\ [][NextSessions]_vars

\* Calls in flight in the streaming mode: sessions open and close, tool
\* calls that make a backend request are posted, the backends answer.
NextStream ==
  \/ Load
  \/ Tick
  \/ \E conn \in ConnIds : OpenSse("GET", "/sse", conn)
  \/ \E conn \in ConnIds : CloseSse(conn)
  \/ \E sessionId \in StreamSessionIdArgs : \E c \in CallIds :
       PostMessages("POST", "/messages", sessionId, c, "n8n_get_workflow", StreamInput)
  \/ \E c \in CallIds : \E reply \in StreamRepliesTo(calls[c]) :
       BackendReply(c, reply)

SpecStream == InitStream /\ [][NextStream]_vars

\* A client posts a call with the session id of a connection that is open.
PostToOpenSession(c) ==
  \E conn \in ConnIds :
    /\ conns[conn].st = "open"
    /\ PostMessages("POST", "/messages", Ok(conns[conn].key), c,
                    "n8n_get_workflow", StreamInput)

AnswerTo(c) == \E reply \in StreamRepliesTo(calls[c]) : BackendReply(c, reply)

\* Sessions that stay open.  The event loop does not stop while a request
\* of a client or an answer of a backend is pending, except that the answer
\* the first call is waiting for may never come.
NextFair ==
  \/ Load
  \/ Tick
  \/ HttpRequest("GET", "/health")
  \/ \E conn \in ConnIds : OpenSse("GET", "/sse", conn)
  \/ \E c \in CallIds : PostToOpenSession(c)
  \/ \E c \in CallIds : AnswerTo(c)

SpecStreamFair ==
  /\ InitStream
  /\ [][NextFair]_vars
  /\ WF_vars(\/ Load
             \/ HttpRequest("GET", "/health")
             \/ \E conn \in ConnIds : OpenSse("GET", "/sse", conn)
             \/ \E c \in CallIds : PostToOpenSession(c)
             \/ \E c \in CallIds \ {1} : AnswerTo(c))

\* Everything that runs after load, side by side: sessions open and close,
\* health requests are served, and two kinds of post come: one without
\* session id whose call makes a backend request, which succeeds or fails,
\* and one with the id of the first instant whose call names an instance
\* that is not configured and fails before any request.
FramePosts ==
  {[sessionId |-> Absent, input |-> StreamInput],
   [sessionId |-> Ok(ToDecimal(9)),
    input |-> Input([instance |-> Ok(<<"x">>), workflowId |-> Ok(<<"7">>)])]}

FrameRepliesTo(call) == StreamRepliesTo(call) \cup
  (IF call.pc = "awaiting" THEN {NetworkFailure} ELSE {})

NextFrame ==
  \/ Load
  \/ Tick
  \/ HttpRequest("GET", "/health")
  \/ \E conn \in ConnIds : OpenSse("GET", "/sse", conn)
  \/ \E conn \in ConnIds : CloseSse(conn)
  \/ \E post \in FramePosts : \E c \in CallIds :
       PostMessages("POST", "/messages", post.sessionId, c, "n8n_get_workflow", post.input)
  \/ \E c \in CallIds : \E reply \in FrameRepliesTo(calls[c]) :
       BackendReply(c, reply)

SpecFrame == InitStream /\ [][NextFrame]_vars

\* The request handler over every method and path.
NextRoutes ==
  \/ Load
  \/ \E method \in Methods : \E pathname \in Pathnames :
       \/ HttpRequest(method, pathname)
       \/ \E conn \in ConnIds : OpenSse(method, pathname, conn)
       \/ \E sessionId \in {Absent} : \E c \in CallIds :
            PostMessages(method, pathname, sessionId, c, "n8n_list_instances", Input(<<>>))
  \/ \E conn \in ConnIds : CloseSse(conn)

SpecRoutes == InitStream /\ [][NextRoutes]_vars

(***************************************************************************)
(* Properties                                                              *)
(***************************************************************************)
\* Two strings are equal up to the case of their letters.
SameLetter(a, b) ==
  \/ a = b
  \/ \E k \in 1..Len(UpperChars) : {a, b} = {UpperChars[k], LowerChars[k]}

EqualIgnoringCase(s, t) ==
  Len(s) = Len(t) /\ \A i \in 1..Len(s) : SameLetter(s[i], t[i])

\* The instance a name designates: the first registered one with that name
\* up to case, 0 when there is none.
Designated(name) ==
  LET m == {i \in 1..Len(instances) : EqualIgnoringCase(instances[i].name, name)}
  IN  IF m = {} THEN 0 ELSE CHOOSE i \in m : \A j \in m : i <= j

\* C1: every tool call is answered exactly once -- one envelope, flagged as an
\* error or not -- once its backend call, if it made one, has completed; no
\* exception leaves the dispatch entry point and nothing is answered before.
C1_AnsweredExactlyOnce ==
  \A c \in CallIds :
    /\ ~calls[c].escaped
    /\ calls[c].pc = "done" =>
         /\ Len(calls[c].results) = 1
         /\ calls[c].results[1].isError \in BOOLEAN
         /\ calls[c].results[1].isError <=>
              (calls[c].results[1].text.fmt = "json"
                 /\ DOMAIN calls[c].results[1].text.doc = {"error"})
    /\ calls[c].pc # "done" => calls[c].results = <<>>

\* An unknown tool name has been answered with an error envelope.
C1_Witness ==
  \E c \in CallIds :
    /\ calls[c].pc = "done"
    /\ calls[c].name \notin KnownTools
    /\ Len(calls[c].results) = 1
    /\ calls[c].results[1].isError

\* C2: every backend request of a call whose instance argument designates the
\* configured instance X carries X's URL and X's API key, and those of no
\* other configured instance, whatever other calls are in flight.
C2_RequestsGoToNamedInstance ==
  \A c \in CallIds :
    \A n \in 1..Len(calls[c].reqs) :
      LET x == Designated(calls[c].input.f.instance.v)
          req == calls[c].reqs[n] IN
      /\ x # 0
      /\ req.origin = instances[x].url
      /\ req.apiKey = instances[x].apiKey
      /\ req.prefix = "/api/v1"
      /\ \A j \in 1..Len(instances) :
           j # x => req.origin # instances[j].url /\ req.apiKey # instances[j].apiKey

\* Two calls naming different instances are in flight at the same time, each
\* with a request to its own backend.
C2_Witness ==
  \E c, e \in CallIds :
    /\ calls[c].pc = "awaiting" /\ calls[e].pc = "awaiting"
    /\ Designated(calls[c].input.f.instance.v) = 1
    /\ Designated(calls[e].input.f.instance.v) = 2
    /\ calls[c].reqs[1].origin # calls[e].reqs[1].origin

\* C3: getInstanceByName answers with the first registered instance whose
\* name equals the requested one up to case, and with not-found exactly when
\* no registered name does.
C3_LookupFirstMatchIgnoringCase ==
  lookup.asked =>
    /\ lookup.result.found <=> Designated(lookup.name) # 0
    /\ lookup.result.index = Designated(lookup.name)

\* A case variant of a name registered twice has been resolved to the first.
C3_Witness ==
  /\ lookup.asked
  /\ lookup.result.found
  /\ lookup.result.index = 1
  /\ lookup.name # instances[1].name
  /\ \E j \in 2..Len(instances) : EqualIgnoringCase(instances[j].name, lookup.name)

\* What each configuration source yields on its own.
FromJson == LoadJson(env.json)
FromNumbered == NumberedLoop(env.numbered, 1, <<>>)
FromLegacy == LoadLegacy(env.legacy, <<>>)

\* C4: no URL stored in the registry ends with a slash, whatever the source
\* and the configured URL string.
C4_NoTrailingSlash ==
  \A i \in 1..Len(instances) : ~EndsWithSlash(instances[i].url)

\* C5: the first source that yields an instance is the only one that
\* contributes: the registry is what N8N_INSTANCES yields when that is not
\* empty, else what the numbered variables yield when that is not empty, and
\* holds the legacy instance only when both yielded nothing.
C5_FirstNonEmptySourceWins ==
  phase = "running" =>
    /\ FromJson # <<>> => instances = FromJson
    /\ FromJson = <<>> /\ FromNumbered # <<>> => instances = FromNumbered
    /\ FromJson = <<>> /\ FromNumbered = <<>> => instances = FromLegacy

\* The request a call made, and the call's arguments as received.
Req(c) == calls[c].reqs[1]
Arg(c, f) == Get(calls[c].input.f, f)
Rejected(c) ==
  calls[c].pc = "done" /\ calls[c].replies = <<>> /\ calls[c].results[1].isError

\* C6: a toggle call that is not rejected makes exactly one request, the
\* activate action when active is true and the deactivate action when it is
\* false, never the generic update; an update call that is not rejected makes
\* exactly one request, the generic update, even when it carries active.
C6_ToggleAndUpdateAreDistinct ==
  \A c \in CallIds :
    /\ calls[c].name = "n8n_toggle_workflow" =>
         /\ Len(calls[c].reqs) = (IF Rejected(c) THEN 0 ELSE 1)
         /\ calls[c].reqs # <<>> =>
              /\ Req(c).method = "POST"
              /\ Req(c).path.res = "workflows"
              /\ Req(c).path.id = Arg(c, "workflowId")
              /\ Req(c).path.action =
                   (IF Arg(c, "active").v THEN "activate" ELSE "deactivate")
              /\ ~Req(c).body.sent
    /\ calls[c].name = "n8n_update_workflow" =>
         /\ Len(calls[c].reqs) = (IF Rejected(c) THEN 0 ELSE 1)
         /\ calls[c].reqs # <<>> =>
              /\ Req(c).method = "PUT"
              /\ Req(c).path.res = "workflows"
              /\ Req(c).path.id = Arg(c, "workflowId")
              /\ Req(c).path.action = ""

\* A toggle to active has made the activate request and an answer came back.
C6_Witness ==
  \E c \in CallIds :
    /\ calls[c].name = "n8n_toggle_workflow"
    /\ calls[c].pc = "done"
    /\ calls[c].reqs # <<>>
    /\ Arg(c, "active") = Ok(TRUE)
    /\ Req(c).path.action = "activate"

PatchFields == {"name", "nodes", "connections", "settings", "active"}

\* C7: the body of the update request has exactly the keys among name,
\* nodes, connections, settings, active that the call carries, each with the
\* value the call gave it, and no other key.
C7_UpdateForwardsPresentFieldsOnly ==
  \A c \in CallIds :
    calls[c].name = "n8n_update_workflow" /\ calls[c].reqs # <<>> =>
      /\ Req(c).body.sent
      /\ DOMAIN Req(c).body.json = PatchFields \cap DOMAIN calls[c].input.f
      /\ \A f \in DOMAIN Req(c).body.json : Req(c).body.json[f] = calls[c].input.f[f]

\* An update carrying only a name (and an undeclared key) sent only the name.
C7_Witness ==
  \E c \in CallIds :
    /\ calls[c].name = "n8n_update_workflow"
    /\ calls[c].reqs # <<>>
    /\ DOMAIN calls[c].input.f = {"instance", "workflowId", "name", "staticData"}
    /\ DOMAIN Req(c).body.json = {"name"}

Range(seq) == {seq[i] : i \in 1..Len(seq)}

\* query occurs in name as a substring, up to the case of the letters.
ContainsIgnoringCase(name, query) ==
  \E i \in 1..(Len(name) + 1) :
    /\ i + Len(query) - 1 <= Len(name)
    /\ \A k \in 1..Len(query) : SameLetter(name[i + k - 1], query[k])

\* C8: a successful search made one list request with limit 200 and returns
\* exactly the workflows of the page fetched whose name contains the query up
\* to case, once each, with count their number, and at most 200 of them.
C8_SearchFiltersOnePage ==
  \A c \in CallIds :
    /\ calls[c].name = "n8n_search_workflows"
    /\ calls[c].pc = "done"
    /\ ~calls[c].results[1].isError
    => LET page == calls[c].replies[1].body.data.items
           doc == calls[c].results[1].text.doc
           query == Arg(c, "query").v IN
       /\ Len(calls[c].reqs) = 1 /\ Len(calls[c].replies) = 1
       /\ Get(Req(c).query, "limit") = Ok(SearchPageSize)
       /\ Range(doc.workflows)
            = {w \in Range(page) : ContainsIgnoringCase(w.name, query)}
       /\ Cardinality(Range(doc.workflows)) = Len(doc.workflows)
       /\ doc.count = Len(doc.workflows)
       /\ doc.count <= SearchPageSize
       /\ doc.query = query

\* A search over a backend holding more than 200 workflows got a full page
\* and returned the part of it that matches.
C8_Witness ==
  \E c \in CallIds :
    /\ calls[c].name = "n8n_search_workflows"
    /\ calls[c].pc = "done"
    /\ ~calls[c].results[1].isError
    /\ Len(calls[c].replies[1].body.data.items) = SearchPageSize
    /\ calls[c].results[1].text.doc.count > DefaultListLimit
    /\ calls[c].results[1].text.doc.count < SearchPageSize

\* The configured names in registration order, separated by ", ".
RECURSIVE NamesUpTo(_)
NamesUpTo(k) ==
  IF k = 0 THEN <<>>
  ELSE IF k = 1 THEN instances[1].name
  ELSE NamesUpTo(k - 1) \o <<", ">> \o instances[k].name

ExpectedNotFound(name) ==
  <<"Instance \"">> \o name \o <<"\" not found. Available instances: ">>
    \o (IF Len(instances) = 0 THEN <<"none">> ELSE NamesUpTo(Len(instances)))

\* A call of an instance-taking tool names an instance that is not configured.
NamesUnknownInstance(c) ==
  /\ calls[c].pc # "idle"
  /\ calls[c].name \in KnownTools \ {"n8n_list_instances"}
  /\ Arg(c, "instance").st = "ok"
  /\ Designated(Arg(c, "instance").v) = 0

AnsweredNotFound(c) ==
  /\ calls[c].pc = "done"
  /\ calls[c].reqs = <<>>
  /\ Len(calls[c].results) = 1
  /\ calls[c].results[1].isError
  /\ calls[c].results[1].text
       = JsonStringify([error |-> ExpectedNotFound(Arg(c, "instance").v)])

\* C9 as stated: every call of an instance-taking tool naming an instance
\* that is not configured is answered with the error naming the requested
\* instance and listing the configured names (or "none"), without a request.
C9_UnknownInstanceAnyCall ==
  \A c \in CallIds : NamesUnknownInstance(c) => AnsweredNotFound(c)

\* C9 (amended): every call of an instance-taking tool whose arguments pass
\* the tool's schema and which names an instance that is not configured is
\* answered with the error naming the requested instance and listing the
\* configured names in registration order (or "none"), without a request.
C9_UnknownInstanceValidCall ==
  \A c \in CallIds :
    NamesUnknownInstance(c) /\ SchemaParse(calls[c].name, calls[c].input).ok
      => AnsweredNotFound(c)

\* A valid call named an unknown instance while two instances are configured.
C9_Witness ==
  \E c \in CallIds :
    /\ NamesUnknownInstance(c)
    /\ SchemaParse(calls[c].name, calls[c].input).ok
    /\ Len(instances) = 2
    /\ calls[c].pc = "done"

\* C10: the text of every result is a JSON document, and that of an error
\* result is the object with the single key "error".
C10_EveryResultIsJson ==
  \A c \in CallIds :
    calls[c].pc = "done" =>
      /\ calls[c].results[1].text.fmt = "json"
      /\ calls[c].results[1].isError =>
           DOMAIN calls[c].results[1].text.doc = {"error"}

\* The arguments a call received fail the tool's schema: no arguments object,
\* a required key missing or ill-typed, or a declared optional key ill-typed
\* (a status outside the enumeration included).
FailsSchema(c) ==
  \/ ~calls[c].input.given
  \/ \E f \in Schema(calls[c].name).req : Arg(c, f).st # "ok"
  \/ \E f \in Schema(calls[c].name).opt : Arg(c, f).st = "bad"

\* C11: a call whose tool name is not one of the 11 known tools is answered
\* with the error envelope "Unknown tool: <name>", and a call whose arguments
\* fail the tool's schema is answered with an error envelope that is the
\* validation error even when the instance it names is not configured; in
\* both cases the call is over at once and has issued no backend request.
C11_RejectedBeforeBackend ==
  \A c \in CallIds :
    calls[c].pc # "idle" =>
      /\ calls[c].name \notin KnownTools =>
           /\ calls[c].pc = "done"
           /\ calls[c].reqs = <<>>
           /\ calls[c].results =
                <<[text |-> JsonStringify([error |-> <<"Unknown tool: ", calls[c].name>>]),
                   isError |-> TRUE]>>
      /\ calls[c].name \in KnownTools /\ FailsSchema(c) =>
           /\ calls[c].pc = "done"
           /\ calls[c].reqs = <<>>
           /\ Len(calls[c].results) = 1
           /\ calls[c].results[1].isError
           /\ Arg(c, "instance").st = "ok" =>
                calls[c].results[1].text.doc.error
                  # ExpectedNotFound(Arg(c, "instance").v)

\* A call with an ill-typed limit naming an instance that is not configured
\* has been answered with an error, without a request.
C11_Witness ==
  \E c \in CallIds :
    /\ calls[c].pc = "done"
    /\ calls[c].name = "n8n_list_workflows"
    /\ Arg(c, "limit").st = "bad"
    /\ Arg(c, "instance").st = "ok"
    /\ Designated(Arg(c, "instance").v) = 0
    /\ Len(instances) = 2
    /\ calls[c].reqs = <<>>
    /\ calls[c].results[1].isError

\* The text request() raises with for a non-success response: the message
\* key of the error body when the body is a JSON object with a non-empty
\* message, else the status line.
BackendErrorText(reply) ==
  <<"N8N API Error: ">> \o
    (IF /\ reply.body.parses
        /\ reply.body.type = "object"
        /\ reply.body.message.st = "ok"
        /\ Len(reply.body.message.v) > 0
       THEN reply.body.message.v
       ELSE <<"HTTP ", StatusDigits(reply.status), ": ", StatusText(reply.status)>>)

IsSuccessStatus(status) == status \div 100 = 2

\* What request() settles with for each HTTP response it received: error
\* statuses and 204.
MapsErrorsAnd204(reply, outcome) ==
  /\ ~IsSuccessStatus(reply.status) =>
       outcome = [k |-> "throw", err |-> [tag |-> "Error", text |-> BackendErrorText(reply)]]
  /\ reply.status = 204 => outcome = [k |-> "return", val |-> Undefined]

\* C12 as stated: request() raises the backend error for every non-success
\* status, returns the empty result for 204 whatever the body, and returns
\* the parsed JSON body for every other success status.
C12_RequestMapsEveryResponse ==
  \A c \in CallIds : \A n \in 1..Len(calls[c].replies) :
    LET reply == calls[c].replies[n]
        outcome == calls[c].outcomes[n] IN
    reply.kind = "http" =>
      /\ MapsErrorsAnd204(reply, outcome)
      /\ IsSuccessStatus(reply.status) /\ reply.status # 204 =>
           outcome.k = "return" /\ outcome.val = reply.body

\* C12 (amended): as stated, except that for a success status other than 204
\* request() returns the parsed body when the body is JSON text and raises
\* the parser's error, not a backend error, when it is not.
C12_RequestMapsParseableResponse ==
  \A c \in CallIds : \A n \in 1..Len(calls[c].replies) :
    LET reply == calls[c].replies[n]
        outcome == calls[c].outcomes[n] IN
    reply.kind = "http" =>
      /\ MapsErrorsAnd204(reply, outcome)
      /\ IsSuccessStatus(reply.status) /\ reply.status # 204 =>
           IF reply.body.parses
             THEN outcome.k = "return" /\ outcome.val = reply.body
             ELSE outcome.k = "throw" /\ outcome.err.tag = "SyntaxError"

\* A 204 whose body is not JSON text has been turned into the empty result.
C12_Witness ==
  \E c \in CallIds :
    /\ Len(calls[c].replies) = 1
    /\ calls[c].replies[1] = Http(204, Unparseable)
    /\ calls[c].outcomes[1].k = "return"

\* C19: whether or not the backend of the first call ever answers, the
\* server goes on taking GET /health, GET /sse and POST /messages requests
\* and every call but the first is answered in the end.
C19_CallsDoNotBlockEachOther ==
  <>[](/\ http.seen
       /\ \A conn \in ConnIds : conns[conn].st = "open"
       /\ \A c \in CallIds \ {1} : calls[c].pc = "done")

\* The second call, made in another session, has been answered while the
\* first call is still waiting for its backend.
C19_Witness ==
  /\ calls[1].pc = "awaiting"
  /\ calls[2].pc = "done"
  /\ calls[1].via # calls[2].via
  /\ streams[calls[2].via] = <<2>>

\* The endpoints of the streaming mode.
Endpoints ==
  {<<"GET", "/">>, <<"GET", "/health">>, <<"GET", "/sse">>, <<"POST", "/messages">>}

\* C13 as stated: every request whose method and path are not those of an
\* endpoint is answered with 404, whatever the method and the path.
C13_OtherRequestsGet404 ==
  http.seen /\ <<http.method, http.pathname>> \notin Endpoints => http.status = 404

\* C13 (amended): every request whose method is not OPTIONS and whose method
\* and path are not those of an endpoint is answered with 404, and every
\* OPTIONS request is answered with 204, whatever its path.
C13_OtherRequestsGet404ExceptPreflight ==
  http.seen =>
    /\ http.method = "OPTIONS" => http.status = 204
    /\ http.method # "OPTIONS" /\ <<http.method, http.pathname>> \notin Endpoints =>
         http.status = 404 /\ http.body = "Not found"

\* The path of an endpoint requested with another method was answered 404.
C13_Witness ==
  /\ http.seen
  /\ http.method = "POST"
  /\ http.pathname = "/sse"
  /\ http.status = 404

\* The table has an entry for the transport of a connection.
InTable(conn) ==
  \E i \in 1..Len(activeTransports) : activeTransports[i].val = conn

\* C14: a session is in the table from its GET /sse on and as long as its
\* connection is open; it is not in the table once the connection has
\* closed; the table has entries for open connections only; and a posted
\* message is handed only to the transport of a connection that has been
\* registered and is open at that time.
C14_TableHoldsTheOpenSessions ==
  /\ \A conn \in ConnIds : conns[conn].st = "open" => InTable(conn)
  /\ \A conn \in ConnIds : conns[conn].st = "closed" => ~InTable(conn)
  /\ \A i \in 1..Len(activeTransports) : conns[activeTransports[i].val].st = "open"
  /\ \A c \in CallIds :
       calls[c].via # NoTransport =>
         /\ conns[calls[c].via].st # "none"
         /\ calls[c].pc = "done" => \E n \in 1..Len(streams[calls[c].via]) :
                                      streams[calls[c].via][n] = c

\* C15: a POST /messages whose sessionId is a key of the table is handed to
\* the transport stored under that key -- the transport of an open connection
\* registered under that session id -- and to no other: it starts one call,
\* in that session, and writes to no other connection's stream.
C15_SessionIdSelectsTheSession ==
  [][\A c \in CallIds :
       (/\ calls[c].pc = "idle"
        /\ calls'[c].pc # "idle"
        /\ calls'[c].sid.st = "ok"
        /\ \E i \in 1..Len(activeTransports) : activeTransports[i].key = calls'[c].sid.v)
       => /\ \E i \in 1..Len(activeTransports) :
               /\ activeTransports[i].key = calls'[c].sid.v
               /\ activeTransports[i].val = calls'[c].via
          /\ conns[calls'[c].via].st = "open"
          /\ conns[calls'[c].via].key = calls'[c].sid.v
          /\ \A e \in CallIds \ {c} : calls'[e] = calls[e]
          /\ \A conn \in ConnIds \ {calls'[c].via} : streams'[conn] = streams[conn]]_vars

\* With two sessions open under different ids, a message posted with the id
\* of the second has been handled in the second session.
C15_Witness ==
  \E c \in CallIds :
    /\ conns[1].st = "open" /\ conns[2].st = "open"
    /\ conns[1].key # conns[2].key
    /\ calls[c].sid = Ok(conns[2].key)
    /\ calls[c].via = 2
    /\ streams[2] = <<c>>
    /\ streams[1] = <<>>

\* The connections that are open, and the one among them registered first.
OpenConns == {conn \in ConnIds : conns[conn].st = "open"}
EarliestOpen == CHOOSE conn \in OpenConns : \A other \in OpenConns : conn <= other

\* C16: a POST /messages without sessionId made while some session is open
\* is handed to the session registered earliest among those open, and to no
\* other; it is not refused.
C16_FallbackGoesToEarliestOpen ==
  [][OpenConns # {} =>
       /\ \A c \in CallIds :
            (/\ calls[c].pc = "idle"
             /\ calls'[c].pc # "idle"
             /\ calls'[c].sid.st = "absent")
            => /\ calls'[c].via = EarliestOpen
               /\ \A conn \in ConnIds \ {EarliestOpen} : streams'[conn] = streams[conn]
       /\ http' # http => http'.status # 400]_vars

\* The registry holds an instance with this name and this API key.
Loaded(name, apiKey) ==
  \E j \in 1..Len(instances) :
    instances[j].name = name /\ instances[j].apiKey = apiKey

\* C17: whatever N8N_INSTANCES holds, loading completes; every entry of the
\* array that has a non-empty name, url and apiKey is loaded, whatever the
\* entries before and after it are; every complete numbered definition is
\* loaded; and the legacy definition is loaded when nothing else was.
C17_ValidEntriesSurviveMalformedOnes ==
  phase = "running" =>
    /\ env.json.kind = "array" =>
         \A i \in 1..Len(env.json.items) :
           LET e == env.json.items[i] IN
           (e.kind = "object" /\ Truthy(e.name) /\ Truthy(e.url) /\ Truthy(e.apiKey))
             => Loaded(e.name.val, e.apiKey.val)
    /\ \A i \in DOMAIN env.numbered :
         LET t == env.numbered[i] IN
         (Truthy(t.name) /\ Truthy(t.url) /\ Truthy(t.apiKey))
           => Loaded(t.name.val, t.apiKey.val)
    /\ (Truthy(env.legacy.url) /\ Truthy(env.legacy.apiKey)) => instances # <<>>

\* C18: a call makes at most one backend request; list-instances makes none;
\* a call of another tool whose arguments pass the schema and whose instance
\* is configured makes exactly one (the search too); and a call whose request
\* failed -- a network failure or an error status -- is answered with an
\* error envelope without a second request.
C18_AtMostOneRequestNoRetry ==
  \A c \in CallIds :
    /\ Len(calls[c].reqs) <= 1
    /\ Len(calls[c].replies) <= Len(calls[c].reqs)
    /\ calls[c].name = "n8n_list_instances" => calls[c].reqs = <<>>
    /\ (/\ calls[c].name \in KnownTools \ {"n8n_list_instances"}
        /\ ~FailsSchema(c)
        /\ Designated(Arg(c, "instance").v) # 0)
       => Len(calls[c].reqs) = 1
    /\ (/\ calls[c].replies # <<>>
        /\ \/ calls[c].replies[1].kind = "network"
           \/ ~IsSuccessStatus(calls[c].replies[1].status))
       => /\ calls[c].pc = "done"
          /\ Len(calls[c].results) = 1
          /\ calls[c].results[1].isError

\* A search whose request met a network failure was answered with an error
\* after that one request.
C18_Witness ==
  \E c \in CallIds :
    /\ calls[c].name = "n8n_search_workflows"
    /\ calls[c].pc = "done"
    /\ Len(calls[c].reqs) = 1
    /\ calls[c].replies = <<NetworkFailure>>
    /\ calls[c].results[1].isError

\* C20: when a connection closes, its session leaves the table in that very
\* step and the calls in flight are left as they are; a call whose connection
\* has closed keeps the one request it made, is still answered by its
\* backend, and its result is written to no stream; and whatever is written
\* to the stream of a connection is the result of a call of that session.
C20_ClosedSessionDropsTheAnswer ==
  [][/\ \A conn \in ConnIds :
          (conns[conn].st = "open" /\ conns'[conn].st = "closed") =>
            /\ \A i \in 1..Len(activeTransports') : activeTransports'[i].val # conn
            /\ calls' = calls
            /\ streams' = streams
     /\ \A c \in CallIds :
          (calls[c].pc = "awaiting" /\ conns[calls[c].via].st = "closed") =>
            /\ calls'[c].reqs = calls[c].reqs
            /\ calls'[c].pc \in {"awaiting", "done"}
            /\ calls'[c].pc = "done" =>
                 /\ Len(calls'[c].results) = 1
                 /\ streams' = streams
     /\ \A conn \in ConnIds : \A n \in 1..Len(streams'[conn]) :
          calls'[streams'[conn][n]].via = conn]_vars

\* A call was answered by its backend after its connection had closed, while
\* another session was open: the result is in no stream.
C20_Witness ==
  \E c \in CallIds :
    /\ calls[c].pc = "done"
    /\ Len(calls[c].replies) = 1
    /\ conns[calls[c].via].st = "closed"
    /\ \E other \in ConnIds : conns[other].st = "open" /\ InTable(other)
    /\ \A conn \in ConnIds : \A n \in 1..Len(streams[conn]) : streams[conn][n] # c

\* C21: a POST /messages whose sessionId is not empty and is no key of the
\* table is handed to no transport: it starts no call and writes to no
\* stream.
C21_UnknownSessionIdIsNotRerouted ==
  [][\A c \in CallIds :
       (/\ calls[c].pc = "idle"
        /\ calls'[c].pc # "idle"
        /\ TruthyStr(calls'[c].sid))
       => /\ MapHas(activeTransports, calls'[c].sid.v)
          /\ MapGet(activeTransports, calls'[c].sid.v) = calls'[c].via]_vars

\* C22: connections that are open at the same time hold different keys, the
\* table has exactly one entry for each open connection, an open registers a
\* session without taking the entry of a session that stays open, and a close
\* removes no entry but that of the connection that closes.
C22_OneEntryPerOpenConnection ==
  [][/\ \A a \in ConnIds : \A b \in ConnIds \ {a} :
          (conns'[a].st = "open" /\ conns'[b].st = "open") =>
            conns'[a].key # conns'[b].key
     /\ Len(activeTransports') = Cardinality({conn \in ConnIds : conns'[conn].st = "open"})
     /\ \A conn \in ConnIds :
          conns'[conn].st = "open" =>
            \E i \in 1..Len(activeTransports') :
              /\ activeTransports'[i].val = conn
              /\ activeTransports'[i].key = conns'[conn].key
     /\ \A conn \in ConnIds :
          (conns[conn].st = "open" /\ conns'[conn].st = "open" /\ InTable(conn)) =>
            \E i \in 1..Len(activeTransports') : activeTransports'[i].val = conn]_vars

\* C23: while the table is empty, a POST /messages -- without sessionId,
\* with an empty one, or with any id -- finds no transport, starts no call and
\* writes to no stream, and the response it gets is 400 with the error
\* "No active SSE connection".
C23_EmptyTableAnswers400 ==
  [][activeTransports = <<>> =>
       /\ \A sessionId \in SessionIdArgs :
            RouteMessage(activeTransports, sessionId) = NoTransport
       /\ calls' = calls
       /\ streams' = streams
       /\ http' # http =>
            /\ http'.seen
            /\ http'.method = "POST"
            /\ http'.pathname = "/messages"
            /\ http'.status = 400
            /\ http'.body = "No active SSE connection"]_vars

\* After the one session that was opened has closed, a post was answered 400
\* and no call was started.
C23_Witness ==
  /\ activeTransports = <<>>
  /\ \E conn \in ConnIds : conns[conn].st = "closed"
  /\ \A conn \in ConnIds : conns[conn].st # "open"
  /\ http.seen
  /\ http.status = 400
  /\ http.body = "No active SSE connection"
  /\ \A c \in CallIds : calls[c].pc = "idle"
  /\ \A conn \in ConnIds : streams[conn] = <<>>

\* C24: once loaded, the instance list is the one loadInstances built and no
\* step changes it; and a step that changes the session table is the insert
\* of a GET /sse or the delete of a connection close, and is no step of a
\* POST /messages, of a tool handler or of the backend client: it leaves the
\* calls, the streams and the responses as they are.
C24_SharedStateIsFramed ==
  [][/\ phase = "running" =>
          /\ instances = loadInstances(env)
          /\ instances' = instances
     /\ activeTransports' # activeTransports =>
          /\ calls' = calls
          /\ streams' = streams
          /\ http' = http
          /\ \E conn \in ConnIds :
               \/ /\ conns[conn].st = "none"
                  /\ conns'[conn].st = "open"
                  /\ activeTransports' =
                       MapSet(activeTransports, conns'[conn].key, conn)
               \/ /\ conns[conn].st = "open"
                  /\ conns'[conn].st = "closed"
                  /\ activeTransports' =
                       MapDelete(activeTransports, conns[conn].key)]_vars

\* A call that failed and a call that succeeded have been answered, a health
\* request was served, one session has closed and one is open: the instance
\* list is the loaded one and the table holds the open session alone.
C24_Witness ==
  /\ phase = "running"
  /\ instances = loadInstances(env)
  /\ Len(instances) = 2
  /\ \E c \in CallIds :
       calls[c].pc = "done" /\ calls[c].results # <<>> /\ calls[c].results[1].isError
  /\ \E c \in CallIds :
       /\ calls[c].pc = "done" /\ calls[c].replies # <<>>
       /\ calls[c].results # <<>> /\ ~calls[c].results[1].isError
  /\ http.seen
  /\ \E conn \in ConnIds : conns[conn].st = "closed"
  /\ \E conn \in ConnIds : conns[conn].st = "open" /\ activeTransports = <<[key |-> conns[conn].key, val |-> conn]>>

====
